---- MODULE Spec2Model ----
(***************************************************************************)
(* Model of the base widget window_t (src/src/guiapi/src/window.cpp):      *)
(* flags, focus pointer, invalidation / drawing, child registration and    *)
(* window-event bubbling.                                                  *)
(*                                                                         *)
(* Every C++ method is an operator from a program state record s to the    *)
(* program state after the call, so that nested calls compose in the order *)
(* the code makes them.  The record carries a trace of the calls made to   *)
(* collaborators (gui_invalidate, Screens, display, timers), of the events *)
(* delivered and of the writes to focused_ptr during the current           *)
(* top-level operation.                                                    *)
(***************************************************************************)
EXTENDS Integers, Sequences, FiniteSets, TLC

VARIABLES live, parent, rect, flags, isFrame, children, focused_ptr,
          current_screen, dont_click_on_next_release,
          op, trace, ret,
          held_since_release   \* history: a Held was passed to EventJogwheel since the last Released

vars == <<live, parent, rect, flags, isFrame, children, focused_ptr,
          current_screen, dont_click_on_next_release,
          op, trace, ret, held_since_release>>

\* ------------------------------------------------------------------ bounds
NumWin == 2       \* widget slots of the lifecycle / registration / draw specs
ChainLen == 3     \* widgets of the event-bubbling spec
MaxCoord == 2     \* largest coordinate / extent of an input rectangle
MaxDiff == 2      \* largest encoder movement of one EventEncoder call

NULL == 0         \* nullptr

Win == DOMAIN live
Ptr == Win \cup {NULL}

\* ------------------------------------------------------------------ Rect16
\* Rect16 lives in a header outside src/; modelled from its use and the spec.
R(x, y, w, h) == [x |-> x, y |-> y, w |-> w, h |-> h]

EmptyRect == R(0, 0, 0, 0)      \* Rect16(), the default argument of Invalidate / Validate

Max2(a, b) == IF a >= b THEN a ELSE b
Min2(a, b) == IF a <= b THEN a ELSE b

IsEmpty(r) == r.w = 0 \/ r.h = 0

HasIntersection(a, b) ==
    /\ ~IsEmpty(a) /\ ~IsEmpty(b)
    /\ a.x < b.x + b.w /\ b.x < a.x + a.w
    /\ a.y < b.y + b.h /\ b.y < a.y + a.h

Intersection(a, b) ==
    IF HasIntersection(a, b)
    THEN LET x0 == Max2(a.x, b.x)
             y0 == Max2(a.y, b.y)
         IN R(x0, y0, Min2(a.x + a.w, b.x + b.w) - x0, Min2(a.y + a.h, b.y + b.h) - y0)
    ELSE EmptyRect

\* a.Contain(b): b lies fully inside a
Contain(a, b) ==
    /\ a.x <= b.x /\ b.x + b.w <= a.x + a.w
    /\ a.y <= b.y /\ b.y + b.h <= a.y + a.h

\* rc.Transform(frame): rc is relative to frame's top-left corner, result clipped to frame
Transform(rc, frame) ==
    Intersection(R(rc.x + frame.x, rc.y + frame.y, rc.w, rc.h), frame)

\* ------------------------------------------------------------------ trace
Ev(call, self, arg, event, param) ==
    [call |-> call, self |-> self, arg |-> arg, event |-> event, param |-> param]

Log(s, e) == [s EXCEPT !.trace = Append(@, e)]

gui_invalidate(s) == Log(s, Ev("gui_invalidate", NULL, NULL, "-", 0))
ResetTimeout(s) == Log(s, Ev("ResetTimeout", NULL, NULL, "-", 0))
Close(s, w) == Log(s, Ev("Close", w, NULL, "-", 0))
gui_timers_delete_by_window(s, w) == Log(s, Ev("gui_timers_delete_by_window", w, NULL, "-", 0))
FillRect(s, w, rc) == Log(s, Ev("FillRect", w, NULL, "-", 0))

\* ------------------------------------------------------------------ flags
NoFlags == [visible |-> FALSE, hidden_behind_dialog |-> FALSE, enabled |-> FALSE,
            invalid |-> FALSE, close_on_click |-> FALSE, has_relative_subwins |-> FALSE,
            enforce_capture_when_not_visible |-> FALSE]

IsVisible(s, w) == s.flags[w].visible /\ ~s.flags[w].hidden_behind_dialog
HasVisibleFlag(s, w) == s.flags[w].visible
IsHiddenBehindDialog(s, w) == s.flags[w].hidden_behind_dialog
IsEnabled(s, w) == s.flags[w].enabled
IsInvalid(s, w) == s.flags[w].invalid
GetFocusedWindow(s) == s.focused_ptr
\* mutant: the comparison with this is lost
IsFocused_AnyFocus(s, w) == GetFocusedWindow(s) # NULL
IsFocused(s, w) == GetFocusedWindow(s) = w
GetParent(s, w) == s.parent[w]
HasEnforcedCapture(s, w) == s.flags[w].enforce_capture_when_not_visible
IsCapturable(s, w) == IsVisible(s, w) \/ HasEnforcedCapture(s, w)

\* mutant: the form the comment at GetCapturedWindow rules out
GetCapturedWindow_Capturable(s, w) ==
    [s EXCEPT !.ret = IF IsCapturable(s, w) THEN w ELSE NULL]

\* the returned pointer is left in s.ret
GetCapturedWindow(s, w) ==
    [s EXCEPT !.ret = IF HasVisibleFlag(s, w) THEN w ELSE NULL]

SetEnforceCapture(s, w) == [s EXCEPT !.flags[w].enforce_capture_when_not_visible = TRUE]
ClrEnforceCapture(s, w) == [s EXCEPT !.flags[w].enforce_capture_when_not_visible = FALSE]

Enable(s, w) == [s EXCEPT !.flags[w].enabled = TRUE]
Disable(s, w) == [s EXCEPT !.flags[w].enabled = FALSE]
SetRelativeSubwins(s, w) == [s EXCEPT !.flags[w].has_relative_subwins = TRUE]
SetParent(s, w, par) == [s EXCEPT !.parent[w] = par]

\* ------------------------------------------------------------------ rectangles
RECURSIVE GetRect(_, _)
TransformRect(s, w, rc) ==
    LET this_rect == GetRect(s, w)
    IN IF s.flags[w].has_relative_subwins
       THEN Transform(rc, this_rect)
       ELSE Intersection(rc, this_rect)

GetRect(s, w) ==
    IF GetParent(s, w) # NULL
    THEN TransformRect(s, GetParent(s, w), s.rect[w])
    ELSE s.rect[w]

SetRectWithoutTransformation(s, w, rc) == [s EXCEPT !.rect[w] = rc]

\* ------------------------------------------------------------------ invalidate / validate
invalidate(s, w, validation_rect) == [s EXCEPT !.flags[w].invalid = TRUE]

validate(s, w, validation_rect) == s

\* mutant: the empty rectangle no longer stands for the whole widget
Invalidate_NoEmptyCheck(s, w, invalidation_rect) ==
    IF HasIntersection(s.rect[w], invalidation_rect)
    THEN gui_invalidate(invalidate(s, w, invalidation_rect))
    ELSE s

Invalidate(s, w, invalidation_rect) ==
    IF IsEmpty(invalidation_rect) \/ HasIntersection(s.rect[w], invalidation_rect)
    THEN gui_invalidate(invalidate(s, w, invalidation_rect))
    ELSE s

Validate(s, w, validation_rect) ==
    IF IsEmpty(validation_rect) \/ HasIntersection(s.rect[w], validation_rect)
    THEN validate([s EXCEPT !.flags[w].invalid = FALSE], w, validation_rect)
    ELSE s

\* ------------------------------------------------------------------ events
\* The call stack is finite: a parent chain that loops back never ends the
\* recursion of windowEvent; the model records the overflow and stops.
StackLimit(s) == Cardinality(DOMAIN s.live) + 1

RECURSIVE WindowEvent(_, _, _, _, _)
\* mutant: the original sender is passed on instead of this
windowEvent_KeepSender(s, w, sender, event, param) ==
    IF event = "CLICK" /\ s.parent[w] # NULL
    THEN IF s.flags[w].close_on_click
         THEN Close(s, w)
         ELSE WindowEvent(s, s.parent[w], sender, event, param)
    ELSE s

\* mutant: a close-on-click widget closes and still forwards
windowEvent_CloseAndForward(s, w, sender, event, param) ==
    IF event = "CLICK" /\ s.parent[w] # NULL
    THEN LET s1 == IF s.flags[w].close_on_click THEN Close(s, w) ELSE s
         IN WindowEvent(s1, s.parent[w], w, event, param)
    ELSE s

windowEvent(s, w, sender, event, param) ==
    IF event = "CLICK" /\ s.parent[w] # NULL
    THEN IF s.flags[w].close_on_click
         THEN Close(s, w)
         ELSE WindowEvent(s, s.parent[w], w, event, param)
    ELSE s

WindowEvent(s, w, sender, event, param) ==
    IF s.depth >= StackLimit(s)
    THEN Log(s, Ev("stack_overflow", w, sender, event, param))
    ELSE LET s1 == Log([s EXCEPT !.depth = @ + 1], Ev("WindowEvent", w, sender, event, param))
             s2 == windowEvent(s1, w, sender, event, param)
         IN [s2 EXCEPT !.depth = s.depth]

\* mutant: the widget passes itself as sender
screenEvent_SelfSender(s, w, sender, event, param) == WindowEvent(s, w, w, event, param)

screenEvent(s, w, sender, event, param) == WindowEvent(s, w, sender, event, param)

ScreenEvent(s, w, sender, event, param) == screenEvent(s, w, sender, event, param)

\* ------------------------------------------------------------------ focus
SetFocusedPtr(s, w) ==
    Log([s EXCEPT !.focused_ptr = w], Ev("focused_ptr", NULL, w, "-", 0))

\* mutant: focused_ptr is moved before the old holder is told
SetFocus_PointerFirst(s, w) ==
    IF ~IsVisible(s, w) \/ ~s.flags[w].enabled
    THEN s
    ELSE IF s.focused_ptr = w
    THEN s
    ELSE LET old == s.focused_ptr
             s1 == SetFocusedPtr(s, w)
             s2 == IF old # NULL
                   THEN WindowEvent(Invalidate(s1, old, EmptyRect), old, old, "FOCUS0", 0)
                   ELSE s1
             s3 == Invalidate(s2, w, EmptyRect)
             s4 == WindowEvent(s3, w, w, "FOCUS1", 0)
         IN gui_invalidate(s4)

SetFocus(s, w) ==
    IF ~IsVisible(s, w) \/ ~s.flags[w].enabled
    THEN s
    ELSE IF s.focused_ptr = w
    THEN s
    ELSE LET old == s.focused_ptr
             s1 == IF old # NULL
                   THEN WindowEvent(Invalidate(s, old, EmptyRect), old, old, "FOCUS0", 0)
                   ELSE s
             s2 == SetFocusedPtr(s1, w)
             s3 == Invalidate(s2, w, EmptyRect)
             s4 == WindowEvent(s3, w, w, "FOCUS1", 0)
         IN gui_invalidate(s4)

ResetFocusedWindow(s) == SetFocusedPtr(s, NULL)

\* ------------------------------------------------------------------ visibility
ChildVisibilityChanged(s, w, child) ==
    Log(s, Ev("ChildVisibilityChanged", w, child, "-", 0))

notifyVisibilityChange(s, w) ==
    IF GetParent(s, w) # NULL
    THEN ChildVisibilityChanged(s, GetParent(s, w), w)
    ELSE s

\* mutant: Show also brings the widget out from behind the dialog
Show_ClearsDialog(s, w) ==
    IF ~s.flags[w].visible
    THEN LET s1 == [s EXCEPT !.flags[w].visible = TRUE, !.flags[w].hidden_behind_dialog = FALSE]
             s2 == Invalidate(s1, w, EmptyRect)
         IN notifyVisibilityChange(s2, w)
    ELSE s

Show(s, w) ==
    IF ~s.flags[w].visible
    THEN LET s1 == [s EXCEPT !.flags[w].visible = TRUE]
             s2 == IF ~s1.flags[w].hidden_behind_dialog
                   THEN Invalidate(s1, w, EmptyRect)
                   ELSE s1
         IN notifyVisibilityChange(s2, w)
    ELSE s

\* mutant: Hide invalidates also behind a dialog
Hide_AlwaysInvalidate(s, w) ==
    IF s.flags[w].visible
    THEN LET s1 == [s EXCEPT !.flags[w].visible = FALSE]
             s2 == Invalidate(s1, w, EmptyRect)
         IN notifyVisibilityChange(s2, w)
    ELSE s

Hide(s, w) ==
    IF s.flags[w].visible
    THEN LET s1 == [s EXCEPT !.flags[w].visible = FALSE]
             s2 == IF ~s1.flags[w].hidden_behind_dialog
                   THEN Invalidate(s1, w, EmptyRect)
                   ELSE s1
         IN notifyVisibilityChange(s2, w)
    ELSE s

ShowAfterDialog(s, w) ==
    IF s.flags[w].hidden_behind_dialog
    THEN Invalidate([s EXCEPT !.flags[w].hidden_behind_dialog = FALSE], w, EmptyRect)
    ELSE s

HideBehindDialog(s, w) ==
    IF ~s.flags[w].hidden_behind_dialog
    THEN Invalidate([s EXCEPT !.flags[w].hidden_behind_dialog = TRUE], w, EmptyRect)
    ELSE s

\* ------------------------------------------------------------------ drawing
unconditionalDraw(s, w) == FillRect(s, w, GetRect(s, w))

\* mutant: the visibility test is dropped
draw_IgnoreVisible(s, w) ==
    IF IsInvalid(s, w) /\ s.rect[w].w # 0 /\ s.rect[w].h # 0
    THEN Validate(unconditionalDraw(s, w), w, EmptyRect)
    ELSE s

draw(s, w) ==
    IF IsInvalid(s, w) /\ s.rect[w].w # 0 /\ s.rect[w].h # 0
    THEN LET s1 == IF IsVisible(s, w) THEN unconditionalDraw(s, w) ELSE s
         IN Validate(s1, w, EmptyRect)
    ELSE s

Draw(s, w) == draw(s, w)

\* ------------------------------------------------------------------ sub-windows
\* window_frame_t is outside src/: its child list is modelled from the spec.
window_frame_t_registerSubWin(s, w, win) ==
    [s EXCEPT !.children[w] = @ \cup {win}, !.ret = TRUE]

window_frame_t_unregisterSubWin(s, w, win) ==
    [s EXCEPT !.children[w] = @ \ {win}]

registerSubWin(s, w, win) ==
    IF s.isFrame[w]
    THEN window_frame_t_registerSubWin(s, w, win)
    ELSE [s EXCEPT !.ret = FALSE]

unregisterSubWin(s, w, win) ==
    IF s.isFrame[w]
    THEN window_frame_t_unregisterSubWin(s, w, win)
    ELSE s

addInvalidationRect(s, w, rc) ==
    IF ~IsEmpty(s.rect[w])
    THEN Invalidate(s, w, EmptyRect)
    ELSE s

\* mutant: flag propagation and timeout reset moved in front of the fit test
RegisterSubWin_CheckLast(s, w, win) ==
    LET s0 == Log(s, Ev("RegisterSubWin", w, win, "-", 0))
        s1 == IF s0.flags[w].has_relative_subwins
              THEN SetRelativeSubwins(s0, win)
              ELSE s0
        s2 == ResetTimeout(s1)
    IN IF ~Contain(GetRect(s0, w), GetRect(s0, win))
       THEN [s2 EXCEPT !.ret = FALSE]
       ELSE registerSubWin(s2, w, win)

RegisterSubWin(s, w, win) ==
    LET s0 == Log(s, Ev("RegisterSubWin", w, win, "-", 0))
    IN IF ~Contain(GetRect(s0, w), GetRect(s0, win))
       THEN [s0 EXCEPT !.ret = FALSE]
       ELSE LET s1 == IF s0.flags[w].has_relative_subwins
                      THEN SetRelativeSubwins(s0, win)
                      ELSE s0
                s2 == ResetTimeout(s1)
            IN registerSubWin(s2, w, win)

UnregisterSubWin(s, w, win) ==
    LET s0 == Log(s, Ev("UnregisterSubWin", w, win, "-", 0))
    IN IF GetParent(s0, win) # w
       THEN s0
       ELSE LET s1 == addInvalidationRect(s0, w, GetRect(s0, win))
                s2 == unregisterSubWin(s1, w, win)
            IN ResetTimeout(s2)

\* ------------------------------------------------------------------ construction / destruction
\* mutant: the new widget is not invalidated
window_t_NoInvalidate(s, w, par, rc, close) ==
    LET s1 == [s EXCEPT !.live[w] = TRUE,
                        !.parent[w] = par,
                        !.rect[w] = rc,
                        !.flags[w] = [NoFlags EXCEPT !.close_on_click = close]]
        s2 == IF close THEN Enable(s1, w) ELSE Disable(s1, w)
        s3 == [s2 EXCEPT !.flags[w].visible = TRUE]
    IN IF par # NULL
       THEN [RegisterSubWin(s3, par, w) EXCEPT !.ret = "void"]
       ELSE s3

window_t(s, w, par, rc, close) ==
    LET s1 == [s EXCEPT !.live[w] = TRUE,
                        !.parent[w] = par,
                        !.rect[w] = rc,
                        !.flags[w] = [NoFlags EXCEPT !.close_on_click = close]]
        s2 == IF close THEN Enable(s1, w) ELSE Disable(s1, w)
        s3 == [s2 EXCEPT !.flags[w].visible = TRUE]
        s4 == Invalidate(s3, w, EmptyRect)
    IN IF par # NULL
       THEN [RegisterSubWin(s4, par, w) EXCEPT !.ret = "void"]
       ELSE s4

\* mutant: focused_ptr keeps pointing at the destroyed widget
window_t_destructor_KeepFocus(s, w) ==
    LET s1 == gui_timers_delete_by_window(s, w)
        s3 == IF GetParent(s1, w) # NULL
              THEN UnregisterSubWin(s1, GetParent(s1, w), w)
              ELSE s1
    IN ResetTimeout(s3)

\* mutant: the widget is unregistered before its focus is cleared
window_t_destructor_UnregisterFirst(s, w) ==
    LET s1 == gui_timers_delete_by_window(s, w)
        s2 == IF GetParent(s1, w) # NULL
              THEN UnregisterSubWin(s1, GetParent(s1, w), w)
              ELSE s1
        s3 == IF GetFocusedWindow(s2) = w THEN SetFocusedPtr(s2, NULL) ELSE s2
    IN ResetTimeout(s3)

window_t_destructor(s, w) ==
    LET s1 == gui_timers_delete_by_window(s, w)
        s2 == IF GetFocusedWindow(s1) = w THEN SetFocusedPtr(s1, NULL) ELSE s1
        s3 == IF GetParent(s2, w) # NULL
              THEN UnregisterSubWin(s2, GetParent(s2, w), w)
              ELSE s2
    IN ResetTimeout(s3)

\* the storage of a destroyed widget is released
Free(s, w) ==
    [s EXCEPT !.live[w] = FALSE, !.parent[w] = NULL, !.rect[w] = EmptyRect,
              !.flags[w] = NoFlags, !.isFrame[w] = FALSE, !.children[w] = {}]

\* ------------------------------------------------------------------ input: encoder and jogwheel button
marlin_notify_server_about_encoder_move(s) ==
    Log(s, Ev("marlin_notify_server_about_encoder_move", NULL, NULL, "-", 0))
marlin_notify_server_about_knob_click(s) ==
    Log(s, Ev("marlin_notify_server_about_knob_click", NULL, NULL, "-", 0))
Sound_Play(s) == Log(s, Ev("Sound_Play", NULL, NULL, "ButtonEcho", 0))

\* Screens::Access()->Get(): the current screen
Screens_Get(s) == s.current_screen

\* what a screen's handler of a broadcast does: nothing, hides or shows a screen,
\* or makes another screen the current one
HandlerKinds == {"none", "Hide", "Show", "Open"}
Handler(s, effect) ==
    CASE effect.kind = "none" -> s
      [] effect.kind = "Hide" -> Hide(s, effect.to)
      [] effect.kind = "Show" -> Show(s, effect.to)
      [] effect.kind = "Open" ->
            Log([s EXCEPT !.current_screen = effect.to], Ev("Open", effect.to, NULL, "-", 0))

\* Screens::Access()->ScreenEvent(sender, event, param): the broadcast to the current
\* screen and its descendants, whose handlers act as `effect'
Screens_ScreenEvent(s, sender, event, param, effect) ==
    Handler(Log(s, Ev("Screens_ScreenEvent", NULL, sender, event, param)), effect)

\* mutant: ENC_DN carries diff as it came
EventEncoder_NoNegate(s, diff, effect) ==
    LET s1 == marlin_notify_server_about_encoder_move(s)
        capture_ptr == GetCapturedWindow(s1, Screens_Get(s1)).ret
    IN IF diff = 0
       THEN [s1 EXCEPT !.ret = FALSE]
       ELSE LET s2 == Screens_ScreenEvent(s1, NULL, "ENC_CHANGE", diff, effect)
            IN IF capture_ptr = NULL
               THEN [s2 EXCEPT !.ret = FALSE]
               ELSE LET s3 == IF diff > 0
                              THEN WindowEvent(s2, capture_ptr, capture_ptr, "ENC_UP", diff)
                              ELSE WindowEvent(s2, capture_ptr, capture_ptr, "ENC_DN", diff)
                    IN [ResetTimeout(s3) EXCEPT !.ret = TRUE]

EventEncoder(s, diff, effect) ==
    LET s1 == marlin_notify_server_about_encoder_move(s)
        capture_ptr == GetCapturedWindow(s1, Screens_Get(s1)).ret
    IN IF diff = 0
       THEN [s1 EXCEPT !.ret = FALSE]
       ELSE LET s2 == Screens_ScreenEvent(s1, NULL, "ENC_CHANGE", diff, effect)
            IN IF capture_ptr = NULL
               THEN [s2 EXCEPT !.ret = FALSE]
               ELSE LET s3 == IF diff > 0
                              THEN WindowEvent(s2, capture_ptr, capture_ptr, "ENC_UP", diff)
                              ELSE WindowEvent(s2, capture_ptr, capture_ptr, "ENC_DN", -diff)
                    IN [ResetTimeout(s3) EXCEPT !.ret = TRUE]

BtnStates == {"Pressed", "Released", "Held"}

\* the three cases of the switch, capture_ptr already taken
Pressed(s, capture_ptr, effect) == Screens_ScreenEvent(s, NULL, "BTN_DN", 0, effect)

Released(s, capture_ptr, effect) ==
    LET s1 == Screens_ScreenEvent(Sound_Play(s), NULL, "BTN_UP", 0, effect)
        s2 == IF ~s1.dont_click_on_next_release /\ capture_ptr # NULL
              THEN WindowEvent(s1, capture_ptr, capture_ptr, "CLICK", 0)
              ELSE s1
    IN [s2 EXCEPT !.dont_click_on_next_release = FALSE]

Held(s, capture_ptr) ==
    LET s1 == [s EXCEPT !.dont_click_on_next_release = TRUE]
    IN IF capture_ptr # NULL
       THEN WindowEvent(s1, capture_ptr, capture_ptr, "HOLD", 0)
       ELSE s1

\* mutant: pressing the button forgets that it was held
EventJogwheel_PressClears(s, state, effect) ==
    LET s1 == marlin_notify_server_about_knob_click(s)
        capture_ptr == GetCapturedWindow(s1, Screens_Get(s1)).ret
        s2 == CASE state = "Pressed" ->
                     [Pressed(s1, capture_ptr, effect) EXCEPT !.dont_click_on_next_release = FALSE]
                [] state = "Released" -> Released(s1, capture_ptr, effect)
                [] state = "Held" -> Held(s1, capture_ptr)
    IN [ResetTimeout(s2) EXCEPT !.ret = TRUE]

\* mutant: the captured window is looked up when the targeted event is sent
EventJogwheel_SampleLate(s, state, effect) ==
    LET s1 == marlin_notify_server_about_knob_click(s)
        s2 == CASE state = "Pressed" -> Pressed(s1, NULL, effect)
                [] state = "Released" ->
                     LET b == Screens_ScreenEvent(Sound_Play(s1), NULL, "BTN_UP", 0, effect)
                         capture_ptr == GetCapturedWindow(b, Screens_Get(b)).ret
                         c == IF ~b.dont_click_on_next_release /\ capture_ptr # NULL
                              THEN WindowEvent(b, capture_ptr, capture_ptr, "CLICK", 0)
                              ELSE b
                     IN [c EXCEPT !.dont_click_on_next_release = FALSE]
                [] state = "Held" -> Held(s1, GetCapturedWindow(s1, Screens_Get(s1)).ret)
    IN [ResetTimeout(s2) EXCEPT !.ret = TRUE]

EventJogwheel(s, state, effect) ==
    LET s1 == marlin_notify_server_about_knob_click(s)
        capture_ptr == GetCapturedWindow(s1, Screens_Get(s1)).ret
        s2 == CASE state = "Pressed" -> Pressed(s1, capture_ptr, effect)
                [] state = "Released" -> Released(s1, capture_ptr, effect)
                [] state = "Held" -> Held(s1, capture_ptr)
    IN [ResetTimeout(s2) EXCEPT !.ret = TRUE]

\* ------------------------------------------------------------------ program state <-> variables
Cur ==
    [live |-> live, parent |-> parent, rect |-> rect, flags |-> flags,
     isFrame |-> isFrame, children |-> children, focused_ptr |-> focused_ptr,
     current_screen |-> current_screen,
     dont_click_on_next_release |-> dont_click_on_next_release,
     trace |-> <<>>, ret |-> "void", depth |-> 0]

Store(s) ==
    /\ live' = s.live
    /\ parent' = s.parent
    /\ rect' = s.rect
    /\ flags' = s.flags
    /\ isFrame' = s.isFrame
    /\ children' = s.children
    /\ focused_ptr' = s.focused_ptr
    /\ current_screen' = s.current_screen
    /\ dont_click_on_next_release' = s.dont_click_on_next_release
    /\ trace' = s.trace
    /\ ret' = s.ret

\* every call but EventJogwheel leaves the jogwheel history alone
Commit(s) == Store(s) /\ UNCHANGED held_since_release

Op(name, self, arg, rc, event, param) ==
    [name |-> name, self |-> self, arg |-> arg, rect |-> rc, event |-> event, param |-> param]

Blank(n) ==
    [live |-> [w \in 1..n |-> FALSE], parent |-> [w \in 1..n |-> NULL],
     rect |-> [w \in 1..n |-> EmptyRect], flags |-> [w \in 1..n |-> NoFlags],
     isFrame |-> [w \in 1..n |-> FALSE], children |-> [w \in 1..n |-> {}],
     focused_ptr |-> NULL, current_screen |-> NULL,
     dont_click_on_next_release |-> FALSE,
     trace |-> <<>>, ret |-> "void", depth |-> 0]

Live == {w \in Win : live[w]}

FullRect == R(0, 0, MaxCoord, MaxCoord)

\* ------------------------------------------------------------------ actions
\* a new widget takes the first free slot (slots are addresses; any free one is equivalent)
Construct(w, par, rc, close, frame) ==
    /\ ~live[w]
    /\ \A v \in Win : v < w => live[v]
    /\ par = NULL \/ par \in Live
    /\ op' = Op("window_t", w, par, rc, "-", 0)
    /\ Commit(window_t([Cur EXCEPT !.isFrame[w] = frame], w, par, rc, close))

\* a parent outlives its children (members are destroyed before the base sub-object)
Destroy(w) ==
    /\ live[w]
    /\ \A c \in Live : parent[c] # w
    /\ op' = Op("~window_t", w, NULL, EmptyRect, "-", 0)
    /\ Commit(Free(window_t_destructor(Cur, w), w))

DoSetFocus(w) ==
    /\ live[w]
    /\ op' = Op("SetFocus", w, NULL, EmptyRect, "-", 0)
    /\ Commit(SetFocus(Cur, w))

DoResetFocusedWindow ==
    /\ op' = Op("ResetFocusedWindow", NULL, NULL, EmptyRect, "-", 0)
    /\ Commit(ResetFocusedWindow(Cur))

DoShow(w) ==
    /\ live[w]
    /\ op' = Op("Show", w, NULL, EmptyRect, "-", 0)
    /\ Commit(Show(Cur, w))

DoHide(w) ==
    /\ live[w]
    /\ op' = Op("Hide", w, NULL, EmptyRect, "-", 0)
    /\ Commit(Hide(Cur, w))

DoShowAfterDialog(w) ==
    /\ live[w]
    /\ op' = Op("ShowAfterDialog", w, NULL, EmptyRect, "-", 0)
    /\ Commit(ShowAfterDialog(Cur, w))

DoHideBehindDialog(w) ==
    /\ live[w]
    /\ op' = Op("HideBehindDialog", w, NULL, EmptyRect, "-", 0)
    /\ Commit(HideBehindDialog(Cur, w))

InitOf(s) ==
    /\ live = s.live
    /\ parent = s.parent
    /\ rect = s.rect
    /\ flags = s.flags
    /\ isFrame = s.isFrame
    /\ children = s.children
    /\ focused_ptr = s.focused_ptr
    /\ current_screen = s.current_screen
    /\ dont_click_on_next_release = s.dont_click_on_next_release
    /\ held_since_release = FALSE
    /\ trace = <<>>
    /\ ret = "void"
    /\ op = Op("init", NULL, NULL, EmptyRect, "-", 0)

\* ------------------------------------------------------------------ Spec: lifecycle, focus, visibility
Init == InitOf(Blank(NumWin))

Next ==
    \/ \E w \in Win, par \in Ptr, close \in BOOLEAN : Construct(w, par, FullRect, close, FALSE)
    \/ \E w \in Win : Destroy(w)
    \/ \E w \in Win : DoSetFocus(w)
    \/ DoResetFocusedWindow
    \/ \E w \in Win : DoShow(w)
    \/ \E w \in Win : DoHide(w)
    \/ \E w \in Win : DoShowAfterDialog(w)
    \/ \E w \in Win : DoHideBehindDialog(w)

Spec == Init /\ [][Next]_vars

\* ------------------------------------------------------------------ trace helpers
Calls(t, c) == {i \in 1..Len(t) : t[i].call = c}

FocusWrite(to) == Ev("focused_ptr", NULL, to, "-", 0)

\* ------------------------------------------------------------------ claims under Spec
FocusedLive == {w \in Live : IsFocused(Cur, w)}

\* C1: at most one live widget reports IsFocused(), and the live widgets that
\* report it are exactly the widget GetFocusedWindow() returns (none when it
\* returns nullptr).
C1_SingleFocus ==
    /\ Cardinality(FocusedLive) <= 1
    /\ FocusedLive = (IF GetFocusedWindow(Cur) = NULL THEN {} ELSE {GetFocusedWindow(Cur)})

\* focus has just moved from one live widget to another
C1_Witness ==
    /\ op.name = "SetFocus"
    /\ Cardinality(Live) >= 2
    /\ focused_ptr = op.self
    /\ \E i \in Calls(trace, "WindowEvent") : trace[i].event = "FOCUS0"
    /\ FocusedLive = {op.self}

C2_Inv == focused_ptr = NULL \/ (focused_ptr \in Win /\ live[focused_ptr])

C2_Step ==
    op'.name = "~window_t" =>
        IF focused_ptr = op'.self
        THEN focused_ptr' = NULL
        ELSE focused_ptr' = focused_ptr

\* C2: GetFocusedWindow() is nullptr or a live widget in every reachable state;
\* destroying the focus holder sets focused_ptr to nullptr, destroying any
\* other widget leaves focused_ptr as it was.
C2_FocusNeverDangles == []C2_Inv /\ [][C2_Step]_vars

\* the focus holder was destroyed while another widget stays alive
C2_Witness ==
    /\ op.name = "~window_t"
    /\ FocusWrite(NULL) \in {trace[i] : i \in 1..Len(trace)}
    /\ focused_ptr = NULL
    /\ Live # {}

C9_Step ==
    op'.name = "~window_t" =>
        LET w == op'.self
            t == trace'
            held == focused_ptr = w
            k == IF held THEN 3 ELSE 2
        IN /\ Len(t) >= 2
           /\ t[1] = Ev("gui_timers_delete_by_window", w, NULL, "-", 0)
           /\ Calls(t, "gui_timers_delete_by_window") = {1}
           /\ IF held
              THEN t[2] = FocusWrite(NULL) /\ Calls(t, "focused_ptr") = {2}
              ELSE Calls(t, "focused_ptr") = {}
           /\ IF parent[w] # NULL
              THEN /\ Calls(t, "UnregisterSubWin") = {k}
                   /\ t[k] = Ev("UnregisterSubWin", parent[w], w, "-", 0)
                   /\ Len(t) > k
              ELSE /\ Calls(t, "UnregisterSubWin") = {}
                   /\ Len(t) = k
           /\ t[Len(t)] = Ev("ResetTimeout", NULL, NULL, "-", 0)
           /\ Cardinality(Calls(t, "ResetTimeout")) = (IF parent[w] # NULL THEN 2 ELSE 1)

\* C9: the destructor first cancels the widget's timers, then clears focused_ptr
\* if the widget held focus, then calls the parent's UnregisterSubWin for the
\* widget if it has a parent, and last resets the screen manager's timeout; the
\* last reset is made for every destroyed widget, parentless ones included.
C9_DestructionOrder == [][C9_Step]_vars

\* a focused child widget was destroyed: all four steps took place
C9_Witness ==
    /\ op.name = "~window_t"
    /\ Len(trace) >= 5
    /\ trace[2] = FocusWrite(NULL)
    /\ trace[3].call = "UnregisterSubWin"
    /\ trace[Len(trace)].call = "ResetTimeout"

C10_Inv ==
    \A w \in Live :
        IsVisible(Cur, w) <=> (flags[w].visible /\ ~flags[w].hidden_behind_dialog)

VisFlags(f, w) == <<f[w].visible, f[w].hidden_behind_dialog>>

C10_Step ==
    LET w == op'.self
    IN /\ op'.name \in {"Show", "Hide", "ShowAfterDialog", "HideBehindDialog"} =>
            \A v \in Win \ {w} : VisFlags(flags', v) = VisFlags(flags, v)
       /\ op'.name = "Show" =>
            VisFlags(flags', w) = <<TRUE, flags[w].hidden_behind_dialog>>
       /\ op'.name = "Hide" =>
            VisFlags(flags', w) = <<FALSE, flags[w].hidden_behind_dialog>>
       /\ op'.name = "ShowAfterDialog" =>
            VisFlags(flags', w) = <<flags[w].visible, FALSE>>
       /\ op'.name = "HideBehindDialog" =>
            VisFlags(flags', w) = <<flags[w].visible, TRUE>>

RECURSIVE BuildRoots(_, _, _, _)
\* n parentless widgets constructed one after another
BuildRoots(s, n, rects, closes) ==
    IF n = 0
    THEN s
    ELSE window_t(BuildRoots(s, n - 1, rects, closes), n, NULL, rects[n], closes[n])

Events == {"CLICK", "ENC_UP"}
OtherEvents == Events \ {"CLICK"}
Params == {0, 1}

\* the new parent is nullptr or another widget; parent chains can become cyclic
DoSetParent(w, par) ==
    /\ live[w]
    /\ par = NULL \/ par \in Live \ {w}
    /\ op' = Op("SetParent", w, par, EmptyRect, "-", 0)
    /\ Commit(SetParent(Cur, w, par))

DoWindowEvent(w, sender, event, param) ==
    /\ live[w]
    /\ sender = NULL \/ sender \in Live
    /\ op' = Op("WindowEvent", w, sender, EmptyRect, event, param)
    /\ Commit(WindowEvent(Cur, w, sender, event, param))

DoScreenEvent(w, sender, event, param) ==
    /\ live[w]
    /\ sender = NULL \/ sender \in Live
    /\ op' = Op("ScreenEvent", w, sender, EmptyRect, event, param)
    /\ Commit(ScreenEvent(Cur, w, sender, event, param))

InitEvent ==
    \E closes \in [1..ChainLen -> BOOLEAN] :
        InitOf(BuildRoots(Blank(ChainLen), ChainLen, [w \in 1..ChainLen |-> FullRect], closes))

NextEvent ==
    \/ \E w \in Win, par \in Ptr : DoSetParent(w, par)
    \/ \E w \in Win : \E sender \in {NULL, w}, param \in Params :
            DoWindowEvent(w, sender, "CLICK", param)
    \/ \E w \in Win, event \in OtherEvents : DoWindowEvent(w, w, event, 1)
    \/ \E w \in Win : \E sp \in {<<NULL, 0>>, <<w, 1>>}, event \in Events :
            DoScreenEvent(w, sp[1], event, sp[2])

SpecEvent == InitEvent /\ [][NextEvent]_vars

\* the widgets met by following parent pointers from w, w included
RECURSIVE Ancestors(_, _)
Ancestors(w, seen) ==
    IF w = NULL \/ w \in seen THEN seen ELSE Ancestors(parent[w], seen \cup {w})

\* following parent pointers from w ends at a widget without parent
RECURSIVE Acyclic(_, _)
Acyclic(w, seen) ==
    IF w = NULL THEN TRUE
    ELSE IF w \in seen THEN FALSE
    ELSE Acyclic(parent[w], seen \cup {w})

\* what the handler of the widget the event was delivered to did: trace[1] is the
\* delivery itself, trace[2] the first call its handler made
C3_Inv ==
    (op.name = "WindowEvent" /\ op.event = "CLICK" /\ parent[op.self] # NULL) =>
        LET w == op.self
        IN /\ trace[1] = Ev("WindowEvent", w, op.arg, "CLICK", op.param)
           /\ Len(trace) >= 2
           /\ IF flags[w].close_on_click
              THEN /\ trace = <<trace[1], Ev("Close", w, NULL, "-", 0)>>
              ELSE /\ trace[2] = Ev("WindowEvent", parent[w], w, "CLICK", op.param)
                   /\ Acyclic(w, {}) =>
                        /\ \A i \in 1..Len(trace) : trace[i].call = "Close" => trace[i].self # w
                        /\ {i \in Calls(trace, "WindowEvent") : trace[i].arg = w /\ i > 1} = {2}

\* C3: a widget with a parent that receives CLICK re-sends that CLICK (same
\* parameter) to its parent with itself as sender and requests no Close when it
\* is not close-on-click; when it is close-on-click it requests Screens Close
\* exactly once and forwards nothing.
C3_ClickForwardOrClose == C3_Inv

\* both cases of C3 side by side: a child forwarded CLICK with parameter 1 to
\* its close-on-click parent, which has a parent itself and closed the screen
C3_Witness ==
    /\ op.name = "WindowEvent" /\ op.event = "CLICK" /\ op.param = 1
    /\ parent[op.self] # NULL
    /\ ~flags[op.self].close_on_click
    /\ Len(trace) = 3
    /\ trace[2] = Ev("WindowEvent", parent[op.self], op.self, "CLICK", 1)
    /\ trace[3] = Ev("Close", parent[op.self], NULL, "-", 0)

\* the widget whose handler ends the bubbling of a CLICK
Stops(w) == parent[w] = NULL \/ flags[w].close_on_click

C4_Inv ==
    (op.name = "WindowEvent" /\ op.event = "CLICK" /\ Acyclic(op.self, {})) =>
        LET t == trace
            D == Calls(t, "WindowEvent")
            n == Cardinality(D)
            z == t[n].self
        IN /\ \A i \in 1..Len(t) : t[i].call \in {"WindowEvent", "Close"}
           /\ D = 1..n /\ n >= 1
           /\ t[1].self = op.self
           /\ \A i, j \in D : i # j => t[i].self # t[j].self
           /\ \A i \in D : t[i].self \in Ancestors(op.self, {})
           /\ \A i \in 2..n : /\ t[i].self = parent[t[i - 1].self]
                              /\ t[i].arg = t[i - 1].self
           /\ \A i \in 1..(n - 1) : ~Stops(t[i].self)
           /\ Stops(z)
           /\ Cardinality(Calls(t, "Close")) <= 1
           /\ IF parent[z] # NULL
              THEN t = SubSeq(t, 1, n) \o <<Ev("Close", z, NULL, "-", 0)>>
              ELSE Len(t) = n

\* C4: on an acyclic parent chain the bubbling of a CLICK ends: every ancestor
\* gets the event at most once, in parent order, the last recipient is the first
\* widget on the chain that is close-on-click or has no parent, at most one Close
\* is requested (by that last recipient, only if it has a parent), and a CLICK
\* that reaches a parentless widget causes neither Close nor a further event.
C4_BubbleTerminates == C4_Inv

\* a CLICK that travelled over two ancestors up to the parentless root
C4_Witness ==
    /\ op.name = "WindowEvent" /\ op.event = "CLICK"
    /\ Acyclic(op.self, {})
    /\ Len(trace) = 3
    /\ \A i \in 1..3 : trace[i].call = "WindowEvent"
    /\ parent[trace[3].self] = NULL
    /\ flags[trace[3].self].close_on_click

\* ------------------------------------------------------------------ SpecDraw: invalidation and drawing
\* Draw, Invalidate and Validate of the base class read and write only the
\* widget they are called on, so the specification follows one widget.
WidgetRects == {FullRect, R(1, 1, 1, 1), R(0, 0, 0, 1), R(0, 0, 1, 0)}

DamageRects == {R(x, x, w, h) : x \in 0..MaxCoord, w \in 0..MaxCoord, h \in 0..1}

DoDraw(w) ==
    /\ live[w]
    /\ op' = Op("Draw", w, NULL, EmptyRect, "-", 0)
    /\ Commit(Draw(Cur, w))

DoInvalidate(w, rc) ==
    /\ live[w]
    /\ op' = Op("Invalidate", w, NULL, rc, "-", 0)
    /\ Commit(Invalidate(Cur, w, rc))

DoValidate(w, rc) ==
    /\ live[w]
    /\ op' = Op("Validate", w, NULL, rc, "-", 0)
    /\ Commit(Validate(Cur, w, rc))

DoGetCapturedWindow(w) ==
    /\ live[w]
    /\ op' = Op("GetCapturedWindow", w, NULL, EmptyRect, "-", 0)
    /\ Commit(GetCapturedWindow(Cur, w))

DoSetEnforceCapture(w) ==
    /\ live[w]
    /\ op' = Op("SetEnforceCapture", w, NULL, EmptyRect, "-", 0)
    /\ Commit(SetEnforceCapture(Cur, w))

DoClrEnforceCapture(w) ==
    /\ live[w]
    /\ op' = Op("ClrEnforceCapture", w, NULL, EmptyRect, "-", 0)
    /\ Commit(ClrEnforceCapture(Cur, w))

InitDraw ==
    \E rc \in WidgetRects, close \in BOOLEAN :
        InitOf(BuildRoots(Blank(1), 1, [w \in {1} |-> rc], [w \in {1} |-> close]))

NextDraw ==
    \/ \E w \in Win : DoDraw(w)
    \/ \E w \in Win, rc \in DamageRects : DoInvalidate(w, rc)
    \/ \E w \in Win, rc \in DamageRects : DoValidate(w, rc)
    \/ \E w \in Win : DoShow(w)
    \/ \E w \in Win : DoHide(w)
    \/ \E w \in Win : DoShowAfterDialog(w)
    \/ \E w \in Win : DoHideBehindDialog(w)
    \/ \E w \in Win : DoGetCapturedWindow(w)
    \/ \E w \in Win : DoSetEnforceCapture(w)
    \/ \E w \in Win : DoClrEnforceCapture(w)

SpecDraw == InitDraw /\ [][NextDraw]_vars

Painted(t, w) == \E i \in Calls(t, "FillRect") : t[i].self = w

C5_Step ==
    op'.name = "Draw" =>
        \A w \in Win :
            Painted(trace', w) =>
                /\ w = op'.self
                /\ flags[w].invalid
                /\ rect[w].w # 0 /\ rect[w].h # 0
                /\ flags[w].visible /\ ~flags[w].hidden_behind_dialog
                /\ ~flags'[w].invalid

\* C5: Draw() paints a widget only if, when Draw() is called, the widget is
\* invalid, its rectangle has non-zero width and height and it is visible (visible
\* flag set, not hidden behind a dialog); a painted widget is valid when Draw()
\* returns.
C5_DrawPaintsOnlyInvalidVisible == [][C5_Step]_vars

\* a widget was painted and is valid now
C5_Witness ==
    /\ op.name = "Draw"
    /\ Painted(trace, op.self)
    /\ ~flags[op.self].invalid

C6_OriginalStep ==
    op'.name = "Invalidate" =>
        LET w == op'.self
            hit == HasIntersection(rect[w], op'.rect)
        IN /\ (flags'[w].invalid # flags[w].invalid \/ trace' # <<>>) => hit
           /\ ~hit => (flags'[w].invalid = flags[w].invalid /\ trace' = <<>>)

\* C6 as stated: Invalidate(r) marks the widget invalid and requests a repaint
\* only if r intersects the widget's rectangle, and otherwise changes nothing.
C6_Original == [][C6_OriginalStep]_vars

C6_Step ==
    op'.name = "Invalidate" =>
        LET w == op'.self
            hit == IsEmpty(op'.rect) \/ HasIntersection(rect[w], op'.rect)
        IN IF hit
           THEN flags'[w].invalid /\ trace' = <<Ev("gui_invalidate", NULL, NULL, "-", 0)>>
           ELSE flags'[w].invalid = flags[w].invalid /\ trace' = <<>>

\* C6 (amended): Invalidate(r) marks the widget invalid and requests a repaint
\* exactly when r is empty (the whole widget, as the default argument) or
\* intersects the widget's own rectangle; for a non-empty r that does not
\* intersect it the invalid flag stays as it was and no repaint is requested.
C6_InvalidateEmptyOrIntersecting == [][C6_Step]_vars

\* an empty damage rectangle away from the origin, which intersects nothing,
\* invalidated the widget and requested a repaint
C6_Witness ==
    /\ op.name = "Invalidate"
    /\ IsEmpty(op.rect) /\ op.rect # EmptyRect
    /\ ~HasIntersection(rect[op.self], op.rect)
    /\ flags[op.self].invalid
    /\ trace = <<Ev("gui_invalidate", NULL, NULL, "-", 0)>>

\* ------------------------------------------------------------------ SpecReg: child registration
RegRects == {FullRect, R(1, 1, 1, 1), R(0, 0, 1, 1)}

ConstructFrame(w, par, rc, frame) == Construct(w, par, rc, FALSE, frame)

DoRegisterSubWin(w, win) ==
    /\ live[w] /\ live[win] /\ w # win
    /\ op' = Op("RegisterSubWin", w, win, EmptyRect, "-", 0)
    /\ Commit(RegisterSubWin(Cur, w, win))

\* called on the parent of win
DoUnregisterSubWin(w, win) ==
    /\ live[w] /\ live[win] /\ parent[win] = w
    /\ op' = Op("UnregisterSubWin", w, win, EmptyRect, "-", 0)
    /\ Commit(UnregisterSubWin(Cur, w, win))

\* relative sub-windows are a property of frames; a base widget gets the flag
\* only from its parent in RegisterSubWin
DoSetRelativeSubwins(w) ==
    /\ live[w] /\ isFrame[w]
    /\ op' = Op("SetRelativeSubwins", w, NULL, EmptyRect, "-", 0)
    /\ Commit(SetRelativeSubwins(Cur, w))

NextReg ==
    \/ \E w \in Win, par \in Ptr, rc \in RegRects, frame \in BOOLEAN :
            ConstructFrame(w, par, rc, frame)
    \/ \E w, win \in Win : DoRegisterSubWin(w, win)
    \/ \E w, win \in Win : DoUnregisterSubWin(w, win)
    \/ \E w \in Win : DoSetRelativeSubwins(w)

SpecReg == Init /\ [][NextReg]_vars

C7_Step ==
    (/\ op'.name = "RegisterSubWin"
     /\ ~Contain(GetRect(Cur, op'.self), GetRect(Cur, op'.arg))) =>
        /\ ret' = FALSE
        /\ children' = children
        /\ flags' = flags
        /\ Calls(trace', "ResetTimeout") = {}
        /\ trace' = <<Ev("RegisterSubWin", op'.self, op'.arg, "-", 0)>>
        /\ <<live', parent', rect', isFrame', focused_ptr'>> = <<live, parent, rect, isFrame, focused_ptr>>

\* C7: RegisterSubWin(child) on a parent whose GetRect() does not fully contain
\* the child's GetRect() returns false and changes nothing: no child list
\* changes, the relative-subwindow flag does not reach the child, and the screen
\* manager's timeout is not reset.
C7_RegisterRejectsOutside == [][C7_Step]_vars

\* a frame with relative sub-windows refused a child that does not fit into it
C7_Witness ==
    /\ op.name = "RegisterSubWin"
    /\ ret = FALSE
    /\ isFrame[op.self]
    /\ flags[op.self].has_relative_subwins
    /\ ~flags[op.arg].has_relative_subwins
    /\ ~Contain(GetRect(Cur, op.self), GetRect(Cur, op.arg))
    /\ op.arg \notin children[op.self]

\* C8 as stated: a widget constructed with a parent is in the parent's child
\* list and invalid, and every live widget whose parent pointer is P is a
\* registered child of P.
C8_Original ==
    /\ (op.name = "window_t" /\ op.arg # NULL) =>
            (op.self \in children[op.arg] /\ flags[op.self].invalid)
    /\ \A w \in Live : parent[w] # NULL => w \in children[parent[w]]

C8_Inv ==
    (op.name = "window_t" /\ op.arg # NULL) =>
        LET w == op.self
            P == op.arg
        IN /\ live[w]
           /\ parent[w] = P
           /\ flags[w].invalid
           /\ Calls(trace, "RegisterSubWin") # {}
           /\ \A i \in Calls(trace, "RegisterSubWin") :
                /\ trace[i] = Ev("RegisterSubWin", P, w, "-", 0)
                /\ Calls(trace, "RegisterSubWin") = {i}
           /\ (isFrame[P] /\ Contain(GetRect(Cur, P), GetRect(Cur, w))) => w \in children[P]
           /\ ~isFrame[P] => w \notin children[P]

\* C8 (amended): after a widget is constructed with a non-null parent P its
\* parent pointer is P, its invalid flag is set and P's RegisterSubWin has been
\* called for it exactly once; it is in P's child list when P is a frame whose
\* rectangle contains the widget's, and in no child list of P when P is a base
\* widget (whose registerSubWin only returns false).
C8_ConstructionRegistersWithFrame == C8_Inv

\* a widget constructed under a base widget: parent pointer set, not registered
C8_Witness ==
    /\ op.name = "window_t" /\ op.arg # NULL
    /\ ~isFrame[op.arg]
    /\ parent[op.self] = op.arg
    /\ flags[op.self].invalid
    /\ op.self \notin children[op.arg]

\* ------------------------------------------------------------------ screen events on a base widget (SpecEvent)
C11_Inv ==
    op.name = "ScreenEvent" =>
        LET w == op.self
        IN /\ Len(trace) >= 1
           /\ trace[1] = Ev("WindowEvent", w, op.arg, op.event, op.param)
           /\ Calls(trace, "WindowEvent") \cup Calls(trace, "Close")
                \cup Calls(trace, "stack_overflow") = 1..Len(trace)
           /\ (op.event = "CLICK" /\ parent[w] # NULL /\ ~flags[w].close_on_click) =>
                /\ Len(trace) >= 2
                /\ trace[2] = Ev("WindowEvent", parent[w], w, "CLICK", op.param)
           /\ op.event # "CLICK" => Len(trace) = 1

\* C11: ScreenEvent on a base widget hands the event to the same widget's
\* WindowEvent with the sender, event and parameter it was given; so a CLICK
\* screen event on a base widget that has a parent and is not close-on-click is
\* re-sent to the parent as a window event with the widget as sender.
C11_ScreenEventIsWindowEvent == C11_Inv

\* a CLICK screen event with sender nullptr went on to the widget's parent
C11_Witness ==
    /\ op.name = "ScreenEvent" /\ op.event = "CLICK" /\ op.arg = NULL
    /\ parent[op.self] # NULL /\ ~flags[op.self].close_on_click
    /\ Len(trace) >= 2
    /\ trace[1] = Ev("WindowEvent", op.self, NULL, "CLICK", op.param)
    /\ trace[2] = Ev("WindowEvent", parent[op.self], op.self, "CLICK", op.param)

\* ------------------------------------------------------------------ SpecFocus: focus changes between drawn widgets
NextFocus ==
    \/ \E w \in Win, par \in Ptr, close \in BOOLEAN : Construct(w, par, FullRect, close, FALSE)
    \/ \E w \in Win : DoSetFocus(w)
    \/ DoResetFocusedWindow
    \/ \E w \in Win : DoDraw(w)

SpecFocus == Init /\ [][NextFocus]_vars

GuiInvalidate == Ev("gui_invalidate", NULL, NULL, "-", 0)

C12_Step ==
    LET A == focused_ptr
        B == op'.self
    IN (/\ op'.name = "SetFocus"
        /\ IsVisible(Cur, B) /\ flags[B].enabled
        /\ A # NULL /\ A # B) =>
            /\ trace' = << GuiInvalidate,
                           Ev("WindowEvent", A, A, "FOCUS0", 0),
                           FocusWrite(B),
                           GuiInvalidate,
                           Ev("WindowEvent", B, B, "FOCUS1", 0),
                           GuiInvalidate >>
            /\ focused_ptr' = B
            /\ flags'[A].invalid /\ flags'[B].invalid

\* C12: when SetFocus moves focus from A to another widget B, A is invalidated
\* and gets FOCUS0 before focused_ptr is written (A is still the focused
\* widget), then focused_ptr becomes B, then B is invalidated and gets FOCUS1;
\* no other event is delivered: the base handler re-sends neither FOCUS0 nor
\* FOCUS1 to a parent.
C12_FocusChangeOrder == [][C12_Step]_vars

\* focus moved between two widgets one of which has a parent, both were drawn
\* (valid) at some point and are invalid now
C12_Witness ==
    /\ op.name = "SetFocus"
    /\ Len(trace) = 6
    /\ trace[2].event = "FOCUS0" /\ trace[5].event = "FOCUS1"
    /\ trace[3] = FocusWrite(op.self)
    /\ parent[trace[2].self] # NULL \/ parent[op.self] # NULL
    /\ flags[trace[2].self].invalid /\ flags[op.self].invalid

\* ------------------------------------------------------------------ SpecVis: visibility of drawn widgets with parents
NextVis ==
    \/ \E w \in Win, par \in Ptr : Construct(w, par, FullRect, FALSE, FALSE)
    \/ \E w \in Win : DoShow(w)
    \/ \E w \in Win : DoHide(w)
    \/ \E w \in Win : DoShowAfterDialog(w)
    \/ \E w \in Win : DoHideBehindDialog(w)
    \/ \E w \in Win : DoDraw(w)

SpecVis == Init /\ [][NextVis]_vars

C13_Step ==
    op'.name \in {"Show", "Hide"} =>
        LET w == op'.self
            show == op'.name = "Show"
            changes == flags[w].visible # show
            hidden == flags[w].hidden_behind_dialog
            notes == Calls(trace', "ChildVisibilityChanged")
        IN IF ~changes
           THEN flags' = flags /\ trace' = <<>>
           ELSE /\ flags'[w].visible = show
                /\ \A v \in Win \ {w} : flags'[v] = flags[v]
                /\ IF parent[w] # NULL
                   THEN /\ Cardinality(notes) = 1
                        /\ \A i \in notes :
                             trace'[i] = Ev("ChildVisibilityChanged", parent[w], w, "-", 0)
                   ELSE notes = {}
                /\ IF hidden
                   THEN /\ Calls(trace', "gui_invalidate") = {}
                        /\ flags'[w].invalid = flags[w].invalid
                   ELSE /\ Cardinality(Calls(trace', "gui_invalidate")) = 1
                        /\ flags'[w].invalid

\* C13: Show() on a widget whose visible flag is set and Hide() on one whose
\* visible flag is clear change no flag, invalidate nothing and notify nobody;
\* when they change the flag, the parent (if the widget has one) gets
\* ChildVisibilityChanged for the widget exactly once, and the widget is
\* invalidated only if it is not hidden behind a dialog (and then it is).
C13_ShowHideEffects == [][C13_Step]_vars

\* a valid child hidden behind a dialog was hidden: parent told once, nothing
\* invalidated
C13_Witness ==
    /\ op.name = "Hide"
    /\ parent[op.self] # NULL
    /\ flags[op.self].hidden_behind_dialog
    /\ ~flags[op.self].visible
    /\ ~flags[op.self].invalid
    /\ trace = <<Ev("ChildVisibilityChanged", parent[op.self], op.self, "-", 0)>>

\* ------------------------------------------------------------------ capture of a base widget (SpecDraw)
C14_Inv ==
    op.name = "GetCapturedWindow" =>
        ret = (IF flags[op.self].visible THEN op.self ELSE NULL)

\* C14: GetCapturedWindow() of a base widget returns the widget when its visible
\* flag is set and nullptr otherwise, whatever the hidden-behind-dialog and
\* enforce-capture flags are; so its answer can differ from IsCapturable().
C14_CapturedIsVisibleFlag == C14_Inv

\* a widget hidden behind a dialog, without enforced capture, is returned
\* although IsCapturable() is false
C14_Witness ==
    /\ op.name = "GetCapturedWindow"
    /\ ret = op.self
    /\ flags[op.self].hidden_behind_dialog
    /\ ~IsCapturable(Cur, op.self)

\* the opposite difference: enforced capture, visible flag clear, nullptr returned
C14_WitnessEnforced ==
    /\ op.name = "GetCapturedWindow"
    /\ ret = NULL
    /\ ~flags[op.self].visible
    /\ IsCapturable(Cur, op.self)

\* ------------------------------------------------------------------ SpecInput: encoder and jogwheel over a set of screens
Diffs == -MaxDiff..MaxDiff

NoEffect == [kind |-> "none", to |-> NULL]
Effects == {NoEffect} \cup [kind : HandlerKinds \ {"none"}, to : Live]

DoEventEncoder(diff, effect) ==
    /\ current_screen \in Live
    /\ op' = Op("EventEncoder", NULL, NULL, EmptyRect, "-", diff)
    /\ Commit(EventEncoder(Cur, diff, effect))

DoEventJogwheel(state, effect) ==
    /\ current_screen \in Live
    /\ op' = Op("EventJogwheel", NULL, NULL, EmptyRect, state, 0)
    /\ Store(EventJogwheel(Cur, state, effect))
    /\ held_since_release' = CASE state = "Held" -> TRUE
                               [] state = "Released" -> FALSE
                               [] state = "Pressed" -> held_since_release

\* every slot holds a screen (a parentless widget); any of them is the current one
InitInput ==
    \E scr \in 1..NumWin :
        InitOf([BuildRoots(Blank(NumWin), NumWin, [w \in 1..NumWin |-> FullRect],
                           [w \in 1..NumWin |-> FALSE])
                EXCEPT !.current_screen = scr])

NextInput ==
    \/ \E diff \in Diffs \ {0}, effect \in Effects : DoEventEncoder(diff, effect)
    \/ DoEventEncoder(0, NoEffect)
    \/ \E state \in BtnStates \ {"Held"}, effect \in Effects : DoEventJogwheel(state, effect)
    \/ DoEventJogwheel("Held", NoEffect)

SpecInput == InitInput /\ [][NextInput]_vars

\* the captured window of the current screen in the state before the step
CaptureOnEntry == IF flags[current_screen].visible THEN current_screen ELSE NULL

Deliveries(t, event) == {i \in 1..Len(t) : t[i].call = "WindowEvent" /\ t[i].event = event}

C15_Step ==
    op'.name = "EventJogwheel" =>
        LET clicks == Deliveries(trace', "CLICK")
        IN /\ op'.event = "Released" =>
                /\ clicks # {} <=> (CaptureOnEntry # NULL /\ ~held_since_release)
                /\ \A i \in clicks : trace'[i].self = CaptureOnEntry
                /\ Cardinality(clicks) <= 1
           /\ op'.event # "Released" => clicks = {}

\* C15: over any sequence of jogwheel states, a Released delivers CLICK to the
\* captured window exactly when a captured window exists and no Held came since
\* the previous Released (or since start-up); a Held suppresses the CLICK of the
\* next Released only, and every Released clears the suppression.
C15_ClickUnlessHeld == [][C15_Step]_vars

\* a Released whose CLICK was suppressed although the current screen was captured
\* (four calls: notify, sound, broadcast, timeout reset; the handler changed nothing)
C15_Witness ==
    /\ op.name = "EventJogwheel" /\ op.event = "Released"
    /\ Len(trace) = 4
    /\ Deliveries(trace, "CLICK") = {}
    /\ flags[current_screen].visible

\* a Released that delivered CLICK
C15_WitnessClick ==
    /\ op.name = "EventJogwheel" /\ op.event = "Released"
    /\ Deliveries(trace, "CLICK") # {}

Targeted == {"ENC_UP", "ENC_DN", "CLICK", "HOLD"}
Broadcast == {"ENC_CHANGE", "BTN_DN", "BTN_UP"}

C16_Step ==
    op'.name \in {"EventEncoder", "EventJogwheel"} =>
        \A i \in 1..Len(trace') :
            trace'[i].call = "WindowEvent" =>
                /\ trace'[i].event \in Targeted
                /\ trace'[i].self = CaptureOnEntry
                /\ trace'[i].arg = CaptureOnEntry
                /\ trace'[i].event # "HOLD" =>
                      \E j \in 1..(i - 1) : /\ trace'[j].call = "Screens_ScreenEvent"
                                            /\ trace'[j].event \in Broadcast

\* C16: ENC_UP, ENC_DN, CLICK and HOLD go to the captured window of the current
\* screen as it was on entry of EventEncoder / EventJogwheel, before the
\* ENC_CHANGE, BTN_DN or BTN_UP broadcast, whatever the broadcast's handlers do
\* to visibility or to the current screen.
C16_RecipientSampledOnEntry == [][C16_Step]_vars

\* the event went to a window that is no longer the captured one when the call returns
C16_Witness ==
    /\ op.name \in {"EventEncoder", "EventJogwheel"}
    /\ \E i \in 1..Len(trace) :
          /\ trace[i].call = "WindowEvent"
          /\ trace[i].self # (IF flags[current_screen].visible THEN current_screen ELSE NULL)

C17_Step ==
    op'.name = "EventEncoder" =>
        LET diff == op'.param
            t == trace'
            sent == {i \in 1..Len(t) : t[i].call = "WindowEvent"}
            resets == Calls(t, "ResetTimeout")
        IN /\ t[1].call = "marlin_notify_server_about_encoder_move"
           /\ diff = 0 => ret' = FALSE /\ Len(t) = 1
           /\ diff # 0 =>
                /\ t[2] = Ev("Screens_ScreenEvent", NULL, NULL, "ENC_CHANGE", diff)
                /\ Cardinality(Calls(t, "Screens_ScreenEvent")) = 1
                /\ CaptureOnEntry = NULL => ret' = FALSE /\ sent = {} /\ resets = {}
                /\ CaptureOnEntry # NULL =>
                      /\ ret' = TRUE
                      /\ sent = {Len(t) - 1}
                      /\ t[Len(t) - 1] =
                            Ev("WindowEvent", CaptureOnEntry, CaptureOnEntry,
                               IF diff > 0 THEN "ENC_UP" ELSE "ENC_DN",
                               IF diff > 0 THEN diff ELSE 0 - diff)
                      /\ resets = {Len(t)}

\* C17: EventEncoder(0) returns false, sends no GUI event and does not reset the
\* timeout; EventEncoder(diff # 0) broadcasts ENC_CHANGE with diff, then with a
\* captured window sends it ENC_UP with diff (diff > 0) or ENC_DN with -diff,
\* resets the timeout and returns true; without one it returns false and does
\* not reset the timeout.
C17_EncoderDispatch == [][C17_Step]_vars

\* a turn to the left reached the captured window as ENC_DN with the magnitude
C17_Witness ==
    /\ op.name = "EventEncoder" /\ op.param < 0 /\ ret = TRUE
    /\ \E i \in 1..Len(trace) :
          /\ trace[i].call = "WindowEvent" /\ trace[i].event = "ENC_DN"
          /\ trace[i].param = 0 - op.param

\* no captured window: broadcast only, false returned
C17_WitnessNoCapture ==
    /\ op.name = "EventEncoder" /\ op.param # 0 /\ ret = FALSE

====
